---- MODULE Spec2Model ----
(***************************************************************************)
(* A model of scripts/sync_honors.py: one process invocation after         *)
(* another against one persistent PostgreSQL store.  Each invocation reads *)
(* its configuration, connects, runs the three sync stages inside one      *)
(* transaction, commits or rolls back, closes the connection and exits.    *)
(*                                                                         *)
(* Environment assumptions (not code of the repository):                   *)
(*  - a successful response body is a JSON array of objects that carry an  *)
(*    "id" (spec section 6); the other keys may be missing;                *)
(*  - PostgreSQL: CURRENT_TIMESTAMP is the start time of the transaction;  *)
(*    one INSERT .. ON CONFLICT DO UPDATE statement that proposes the same *)
(*    key twice raises; a failed COMMIT commits nothing; a connection that *)
(*    is closed with an open transaction discards it;                      *)
(*  - the wall clock advances from one invocation to the next.             *)
(***************************************************************************)
EXTENDS Naturals, Sequences, FiniteSets, TLC

\* ---------------------------------------------------------------- bounds
MaxRuns == 2
MaxId == 2
MaxLen == 1

\* ------------------------------------------------------------- constants
PyNone == "None"
Null == "NULL"

SERVERS ==
    [cn |-> "haruki-sekai-sc-master",
     jp |-> "haruki-sekai-master",
     en |-> "haruki-sekai-en-master",
     tw |-> "haruki-sekai-tc-master",
     kr |-> "haruki-sekai-kr-master"]

\* The display names, transliterated: the source holds them in their own scripts
SERVER_NAMES ==
    [cn |-> "Simplified Chinese",
     jp |-> "Japanese",
     en |-> "English",
     tw |-> "Traditional Chinese",
     kr |-> "Korean"]

RAW_URL_TEMPLATE(repo, file) ==
    "https://raw.githubusercontent.com/Team-Haruki/" \o repo \o "/main/master/" \o file

CDN_URL_TEMPLATE(repo, file) ==
    "https://cdn.jsdelivr.net/gh/Team-Haruki/" \o repo \o "@main/master/" \o file

Kinds == {"honors", "bonds_honors", "honor_groups"}

\* ------------------------------------------------------- python helpers
\* dict.get(key): the value, or None when the key is missing
Get(item, key) == IF key \in DOMAIN item THEN item[key] ELSE PyNone

\* dict.get(key, default)
GetD(item, key, default) == IF key \in DOMAIN item THEN item[key] ELSE default

ServersGet(s) == IF s \in DOMAIN SERVERS THEN SERVERS[s] ELSE PyNone

ServerNamesGet(s) == IF s \in DOMAIN SERVER_NAMES THEN SERVER_NAMES[s] ELSE PyNone

\* truth value of an Optional[str]
FalsyStr(v) == v = PyNone \/ v = ""

\* psycopg2's adaptation of a scalar parameter: None becomes SQL NULL
Adapt(v) == IF v = PyNone THEN Null ELSE v

\* psycopg2.extras.Json of a list of level objects: its JSON text.  A level
\* object {"level": n} is modelled by the number n.
RECURSIVE JsonElems(_, _)
JsonElems(levels, i) ==
    IF i > Len(levels) THEN ""
    ELSE (IF i > 1 THEN ", " ELSE "")
         \o "{\"level\": " \o ToString(levels[i]) \o "}"
         \o JsonElems(levels, i + 1)

Json(levels) == "[" \o JsonElems(levels, 1) \o "]"

\* A fetch result (Optional[list]): absent, or the parsed array
Absent == [ok |-> FALSE, data |-> <<>>]
Body(d) == [ok |-> TRUE, data |-> d]

\* "if not data": None and the empty list are both falsy
Falsy(r) == ~r.ok \/ Len(r.data) = 0

\* --------------------------------------------------------------- inputs
Ids == {ToString(n) : n \in 1..MaxId}

\* An object of a file comes with every key ("full") or with its id alone ("sparse")
Variants == {"full", "sparse"}

HonorItem(i, v) ==
    IF v = "full"
    THEN [id |-> i, seq |-> "7", groupId |-> "10", honorRarity |-> "low",
          name |-> "A", assetbundleName |-> "a", levels |-> <<1>>]
    ELSE [id |-> i]

BondsHonorItem(i, v) ==
    IF v = "full"
    THEN [id |-> i, seq |-> "7", bondsGroupId |-> "20",
          gameCharacterUnitId1 |-> "1", gameCharacterUnitId2 |-> "2",
          honorRarity |-> "low", name |-> "B", description |-> "d",
          levels |-> <<1>>]
    ELSE [id |-> i]

HonorGroupItem(i, v) ==
    IF v = "full"
    THEN [id |-> i, name |-> "G", honorType |-> "event",
          backgroundAssetbundleName |-> "bg"]
    ELSE [id |-> i]

Item(kind, i, v) ==
    CASE kind = "honors" -> HonorItem(i, v)
      [] kind = "bonds_honors" -> BondsHonorItem(i, v)
      [] kind = "honor_groups" -> HonorGroupItem(i, v)

\* The states the upstream repository may be in: the three files of one commit
\* list the same ids in the same order, each object full or sparse
Shapes == UNION {[1..n -> Ids \X Variants] : n \in 0..MaxLen}

Upstreams ==
    {[k \in Kinds |-> [j \in 1..Len(sh) |-> Item(k, sh[j][1], sh[j][2])]] : sh \in Shapes}

NoUpstream == [k \in Kinds |-> <<>>]

\* What one HTTP attempt can end in
Outcomes == {"ok", "transport", "status", "badjson"}

\* ------------------------------------------------------------ fetch_json
\* The loop over the two URLs; net maps a URL to what requesting it ends in.
\* log is the sequence of attempts made, each with its URL and outcome.
\* fetch_json as it would be if malformed JSON ended the loop instead of moving on
RECURSIVE FetchLoopStopsOnBadJson(_, _, _, _)
FetchLoopStopsOnBadJson(urls, i, net, log) ==
    IF i > Len(urls) THEN [ret |-> Absent, log |-> log]
    ELSE LET r == net[urls[i]]
             l == Append(log, [url |-> urls[i], outcome |-> r.outcome])
         IN IF r.outcome = "ok"
            THEN [ret |-> Body(r.data), log |-> l]
            ELSE IF r.outcome = "badjson"
            THEN [ret |-> Absent, log |-> l]
            ELSE FetchLoopStopsOnBadJson(urls, i + 1, net, l)

RECURSIVE FetchLoop(_, _, _, _)
FetchLoop(urls, i, net, log) ==
    IF i > Len(urls) THEN [ret |-> Absent, log |-> log]
    ELSE LET r == net[urls[i]]
             l == Append(log, [url |-> urls[i], outcome |-> r.outcome])
         IN IF r.outcome = "ok"
            THEN [ret |-> Body(r.data), log |-> l]
            ELSE FetchLoop(urls, i + 1, net, l)

Urls(repo, filename) ==
    <<RAW_URL_TEMPLATE(repo, filename), CDN_URL_TEMPLATE(repo, filename)>>

fetch_json(repo, filename, net) == FetchLoop(Urls(repo, filename), 1, net, <<>>)

\* The network as one call of fetch_json meets it: what requesting the primary
\* and the secondary URL of a file ends in, and the body each would serve
Net(repo, filename, o1, d1, o2, d2) ==
    (RAW_URL_TEMPLATE(repo, filename) :> [outcome |-> o1, data |-> d1])
    @@ (CDN_URL_TEMPLATE(repo, filename) :> [outcome |-> o2, data |-> d2])

\* The file each sync method asks for
FileOf(kind) ==
    CASE kind = "honors" -> "honors.json"
      [] kind = "bonds_honors" -> "bondsHonors.json"
      [] kind = "honor_groups" -> "honorGroups.json"

\* -------------------------------------------------------- record mappers
HonorsRecord(server, item) ==
    [server |-> server,
     honor_id |-> Adapt(Get(item, "id")),
     seq |-> Adapt(Get(item, "seq")),
     group_id |-> Adapt(Get(item, "groupId")),
     honor_rarity |-> Adapt(Get(item, "honorRarity")),
     name |-> Adapt(Get(item, "name")),
     asset_bundle_name |-> Adapt(Get(item, "assetbundleName")),
     levels |-> Json(GetD(item, "levels", <<>>))]

BondsHonorsRecord(server, item) ==
    [server |-> server,
     bonds_honor_id |-> Adapt(Get(item, "id")),
     seq |-> Adapt(Get(item, "seq")),
     bonds_group_id |-> Adapt(Get(item, "bondsGroupId")),
     game_character_unit_id1 |-> Adapt(Get(item, "gameCharacterUnitId1")),
     game_character_unit_id2 |-> Adapt(Get(item, "gameCharacterUnitId2")),
     honor_rarity |-> Adapt(Get(item, "honorRarity")),
     name |-> Adapt(Get(item, "name")),
     description |-> Adapt(Get(item, "description")),
     levels |-> Json(GetD(item, "levels", <<>>))]

HonorGroupsRecord(server, item) ==
    [server |-> server,
     group_id |-> Adapt(Get(item, "id")),
     name |-> Adapt(Get(item, "name")),
     honor_type |-> Adapt(Get(item, "honorType")),
     background_asset_bundle_name |-> Adapt(Get(item, "backgroundAssetbundleName"))]

Record(kind, server, item) ==
    CASE kind = "honors" -> HonorsRecord(server, item)
      [] kind = "bonds_honors" -> BondsHonorsRecord(server, item)
      [] kind = "honor_groups" -> HonorGroupsRecord(server, item)

\* The identity column of each table
IdColumn(kind) ==
    CASE kind = "honors" -> "honor_id"
      [] kind = "bonds_honors" -> "bonds_honor_id"
      [] kind = "honor_groups" -> "group_id"

\* ------------------------------------------------------------- upserts
\* The honors statement as a plain INSERT on a table without the unique key
HonorsInsertOnly(table, rec, ts) == table \cup {rec @@ [updated_at |-> ts]}

\* INSERT INTO honors ... ON CONFLICT (server, honor_id) DO UPDATE SET ...
HonorsUpsert(table, rec, ts) ==
    IF \E row \in table : row.server = rec.server /\ row.honor_id = rec.honor_id
    THEN {IF row.server = rec.server /\ row.honor_id = rec.honor_id
          THEN [row EXCEPT !.seq = rec.seq,
                           !.group_id = rec.group_id,
                           !.honor_rarity = rec.honor_rarity,
                           !.name = rec.name,
                           !.asset_bundle_name = rec.asset_bundle_name,
                           !.levels = rec.levels,
                           !.updated_at = ts]
          ELSE row : row \in table}
    ELSE table \cup {rec @@ [updated_at |-> ts]}

\* The bonds_honors statement with description left out of DO UPDATE SET
BondsHonorsUpsertKeepsDescription(table, rec, ts) ==
    IF \E row \in table : row.server = rec.server /\ row.bonds_honor_id = rec.bonds_honor_id
    THEN {IF row.server = rec.server /\ row.bonds_honor_id = rec.bonds_honor_id
          THEN [row EXCEPT !.seq = rec.seq,
                           !.bonds_group_id = rec.bonds_group_id,
                           !.game_character_unit_id1 = rec.game_character_unit_id1,
                           !.game_character_unit_id2 = rec.game_character_unit_id2,
                           !.honor_rarity = rec.honor_rarity,
                           !.name = rec.name,
                           !.levels = rec.levels,
                           !.updated_at = ts]
          ELSE row : row \in table}
    ELSE table \cup {rec @@ [updated_at |-> ts]}

\* INSERT INTO bonds_honors ... ON CONFLICT (server, bonds_honor_id) DO UPDATE SET ...
BondsHonorsUpsert(table, rec, ts) ==
    IF \E row \in table : row.server = rec.server /\ row.bonds_honor_id = rec.bonds_honor_id
    THEN {IF row.server = rec.server /\ row.bonds_honor_id = rec.bonds_honor_id
          THEN [row EXCEPT !.seq = rec.seq,
                           !.bonds_group_id = rec.bonds_group_id,
                           !.game_character_unit_id1 = rec.game_character_unit_id1,
                           !.game_character_unit_id2 = rec.game_character_unit_id2,
                           !.honor_rarity = rec.honor_rarity,
                           !.name = rec.name,
                           !.description = rec.description,
                           !.levels = rec.levels,
                           !.updated_at = ts]
          ELSE row : row \in table}
    ELSE table \cup {rec @@ [updated_at |-> ts]}

\* The honor_groups write as a replacement of the region's rows by the snapshot
HonorGroupsReplaceRegion(table, rec, ts) ==
    {row \in table : row.server # rec.server} \cup {rec @@ [updated_at |-> ts]}

\* INSERT INTO honor_groups ... ON CONFLICT (server, group_id) DO UPDATE SET ...
HonorGroupsUpsert(table, rec, ts) ==
    IF \E row \in table : row.server = rec.server /\ row.group_id = rec.group_id
    THEN {IF row.server = rec.server /\ row.group_id = rec.group_id
          THEN [row EXCEPT !.name = rec.name,
                           !.honor_type = rec.honor_type,
                           !.background_asset_bundle_name = rec.background_asset_bundle_name,
                           !.updated_at = ts]
          ELSE row : row \in table}
    ELSE table \cup {rec @@ [updated_at |-> ts]}

Upsert(kind, table, rec, ts) ==
    CASE kind = "honors" -> HonorsUpsert(table, rec, ts)
      [] kind = "bonds_honors" -> BondsHonorsUpsert(table, rec, ts)
      [] kind = "honor_groups" -> HonorGroupsUpsert(table, rec, ts)

\* execute_values: the one statement applied to every record in order (the
\* records of a snapshot fit one page of the statement)
RECURSIVE ExecuteValues(_, _, _, _, _)
ExecuteValues(kind, table, records, i, ts) ==
    IF i > Len(records) THEN table
    ELSE ExecuteValues(kind, Upsert(kind, table, records[i], ts), records, i + 1, ts)

\* PostgreSQL refuses a statement that proposes one key twice
\* ("ON CONFLICT DO UPDATE command cannot affect row a second time")
ProposesKeyTwice(kind, records) ==
    \E i, j \in 1..Len(records) :
        i # j /\ records[i][IdColumn(kind)] = records[j][IdColumn(kind)]

\* ---------------------------------------------------------------- state
VARIABLES
    pc,            \* where the current invocation stands
    entry,         \* "main": through main(); "direct": HonorsSyncer(...) called directly
    database_url,  \* DATABASE_URL, or the constructor's argument
    server,        \* the region code
    repo,          \* self.repo
    conn,          \* self.conn: "none", "open" or "closed"
    connectCalls,  \* calls of psycopg2.connect by this invocation
    requested,     \* whether this invocation has called requests.get
    store,         \* the committed contents of the three tables
    txn,           \* the tables as the open transaction sees them
    before,        \* the committed contents when this invocation started
    results,       \* run()'s summary
    snap,          \* what each fetch of this run returned
    lastFetch,     \* a call of fetch_json on its own: its inputs, attempts and result
    exc,           \* the exception being handled, or None
    exitCode,      \* the exit status of the process
    now,           \* the wall clock
    runs,          \* invocations started so far
    prev,          \* the previous invocation, if it succeeded: its region, fetches and time
    upstream,      \* the three files as the upstream repository holds them
    events         \* the operations run() has executed, in order

vars ==
    <<pc, entry, database_url, server, repo, conn, connectCalls, requested, store,
      txn, before, results, snap, lastFetch, exc, exitCode, now, runs, prev,
      upstream, events>>

EmptyStore == [k \in Kinds |-> {}]

NoSnap == [k \in Kinds |-> Absent]

NoFetch ==
    [repo |-> "", filename |-> "", primary |-> [outcome |-> "", data |-> <<>>],
     secondary |-> [outcome |-> "", data |-> <<>>], log |-> <<>>, ret |-> Absent]

NoResults ==
    [server |-> PyNone, server_name |-> PyNone, honors |-> 0, bonds_honors |-> 0,
     honor_groups |-> 0, success |-> FALSE, error |-> PyNone]

\* run(): the summary as initialised
RunResults(s) ==
    [server |-> s, server_name |-> ServerNamesGet(s), honors |-> 0, bonds_honors |-> 0,
     honor_groups |-> 0, success |-> FALSE, error |-> PyNone]

NoPrev == [success |-> FALSE, server |-> PyNone, snap |-> NoSnap, now |-> 0]

\* What the environment may hold: DATABASE_URL unset, empty or set; SERVER unset,
\* a region, empty or unknown
EnvDatabaseUrls == {PyNone, "", "postgresql://db"}

EnvServers == {PyNone, "jp", "", "xx"}

\* The arguments a direct caller may pass
ArgServers == DOMAIN SERVERS \cup {"", "xx"}

Init ==
    /\ pc = "idle"
    /\ entry = "none"
    /\ database_url = PyNone
    /\ server = PyNone
    /\ repo = PyNone
    /\ conn = "none"
    /\ connectCalls = 0
    /\ requested = FALSE
    /\ store = EmptyStore
    /\ txn = EmptyStore
    /\ before = EmptyStore
    /\ results = NoResults
    /\ snap = NoSnap
    /\ lastFetch = NoFetch
    /\ exc = PyNone
    /\ exitCode = 0
    /\ now = 0
    /\ runs = 0
    /\ prev = NoPrev
    /\ upstream = NoUpstream
    /\ events = <<>>

\* A new process: nothing of the last one survives but the store
StartProcess(e) ==
    /\ pc \in {"idle", "exited"}
    /\ runs < MaxRuns
    /\ runs' = runs + 1
    /\ now' = now + 1
    /\ entry' = e
    /\ repo' = PyNone
    /\ conn' = "none"
    /\ connectCalls' = 0
    /\ requested' = FALSE
    /\ txn' = store
    /\ before' = store
    /\ results' = NoResults
    /\ snap' = NoSnap
    /\ exc' = PyNone
    /\ UNCHANGED lastFetch
    /\ events' = <<>>
    /\ prev' = IF results.success
               THEN [success |-> TRUE, server |-> server, snap |-> snap, now |-> now]
               ELSE NoPrev
    /\ upstream' = NoUpstream
    /\ UNCHANGED store

\* main(): the configuration checks
MainEnter ==
    \E db \in EnvDatabaseUrls, srv \in EnvServers :
        LET s == IF srv = PyNone THEN "cn" ELSE srv
        IN /\ StartProcess("main")
           /\ database_url' = db
           /\ IF FalsyStr(db)
              THEN /\ server' = PyNone
                   /\ exitCode' = 1
                   /\ pc' = "exited"
              ELSE /\ server' = s
                   /\ IF s \notin DOMAIN SERVERS
                      THEN exitCode' = 1 /\ pc' = "exited"
                      ELSE exitCode' = 0 /\ pc' = "construct"

\* A caller other than main() constructs HonorsSyncer with arguments of its own
DirectEnter ==
    \E db \in EnvDatabaseUrls, srv \in ArgServers :
        /\ StartProcess("direct")
        /\ database_url' = db
        /\ server' = srv
        /\ exitCode' = 0
        /\ pc' = "construct"

\* HonorsSyncer.__init__ as it would be if it connected before resolving the region
ConstructConnectsFirst ==
    /\ pc = "construct"
    /\ repo' = ServersGet(server)
    /\ connectCalls' = connectCalls + 1
    /\ \E connected \in BOOLEAN :
        IF ~connected
        THEN /\ exc' = "OperationalError"
             /\ exitCode' = 1
             /\ pc' = "exited"
             /\ UNCHANGED conn
        ELSE /\ conn' = "open"
             /\ IF FalsyStr(ServersGet(server))
                THEN /\ exc' = "ValueError"
                     /\ exitCode' = 1
                     /\ pc' = "exited"
                ELSE /\ pc' = IF entry = "main" THEN "sync_honors" ELSE "constructed"
                     /\ UNCHANGED <<exc, exitCode>>
    /\ txn' = store
    /\ UNCHANGED <<entry, database_url, server, requested, store, before, results,
                   snap, lastFetch, now, runs, prev, upstream, events>>

\* HonorsSyncer.__init__
Construct ==
    /\ pc = "construct"
    /\ repo' = ServersGet(server)
    /\ IF FalsyStr(ServersGet(server))
       THEN /\ exc' = "ValueError"
            /\ exitCode' = 1
            /\ pc' = "exited"
            /\ UNCHANGED <<conn, connectCalls>>
       ELSE /\ connectCalls' = connectCalls + 1
            /\ \E connected \in BOOLEAN :
                IF connected
                THEN /\ conn' = "open"
                     /\ pc' = IF entry = "main" THEN "sync_honors" ELSE "constructed"
                     /\ UNCHANGED <<exc, exitCode>>
                ELSE /\ exc' = "OperationalError"
                     /\ exitCode' = 1
                     /\ pc' = "exited"
                     /\ UNCHANGED conn
    /\ txn' = store
    /\ UNCHANGED <<entry, database_url, server, requested, store, before, results,
                   snap, lastFetch, now, runs, prev, upstream, events>>

\* A sync method as it would be if an absent file were raised as an error
SyncStageAbsentRaises(kind, res, next, up) ==
    \E o1, o2 \in Outcomes, dbFail \in BOOLEAN :
        LET f == fetch_json(repo, FileOf(kind), Net(repo, FileOf(kind), o1, up[kind], o2, up[kind]))
            records == [i \in 1..Len(f.ret.data) |-> Record(kind, server, f.ret.data[i])]
        IN /\ requested' = (requested \/ Len(f.log) > 0)
           /\ snap' = [snap EXCEPT ![kind] = f.ret]
           /\ IF ~f.ret.ok \/ dbFail \/ ProposesKeyTwice(kind, records)
              THEN /\ results' = res
                   /\ events' = Append(events, [op |-> kind, raised |-> TRUE])
                   /\ exc' = "DatabaseError"
                   /\ pc' = "except"
                   /\ UNCHANGED txn
              ELSE /\ txn' = [txn EXCEPT ![kind] = ExecuteValues(kind, @, records, 1, now)]
                   /\ results' = [res EXCEPT ![kind] = Len(records)]
                   /\ events' = Append(events, [op |-> kind, raised |-> FALSE])
                   /\ pc' = next
                   /\ UNCHANGED exc
           /\ upstream' = up
           /\ UNCHANGED <<entry, database_url, server, repo, conn, connectCalls, store,
                          before, lastFetch, exitCode, now, runs, prev>>

\* One sync method: fetch, map, execute_values
SyncStage(kind, res, next, up) ==
    \E o1, o2 \in Outcomes, dbFail \in BOOLEAN :
        LET f == fetch_json(repo, FileOf(kind), Net(repo, FileOf(kind), o1, up[kind], o2, up[kind]))
            records == [i \in 1..Len(f.ret.data) |-> Record(kind, server, f.ret.data[i])]
        IN /\ requested' = (requested \/ Len(f.log) > 0)
           /\ snap' = [snap EXCEPT ![kind] = f.ret]
           /\ IF Falsy(f.ret)
              THEN /\ results' = [res EXCEPT ![kind] = 0]
                   /\ events' = Append(events, [op |-> kind, raised |-> FALSE])
                   /\ pc' = next
                   /\ UNCHANGED <<txn, exc>>
              ELSE IF dbFail \/ ProposesKeyTwice(kind, records)
              THEN /\ results' = res
                   /\ events' = Append(events, [op |-> kind, raised |-> TRUE])
                   /\ exc' = "DatabaseError"
                   /\ pc' = "except"
                   /\ UNCHANGED txn
              ELSE /\ txn' = [txn EXCEPT ![kind] = ExecuteValues(kind, @, records, 1, now)]
                   /\ results' = [res EXCEPT ![kind] = Len(records)]
                   /\ events' = Append(events, [op |-> kind, raised |-> FALSE])
                   /\ pc' = next
                   /\ UNCHANGED exc
           /\ upstream' = up
           /\ UNCHANGED <<entry, database_url, server, repo, conn, connectCalls, store,
                          before, lastFetch, exitCode, now, runs, prev>>

\* run(), first stage, with the summary it starts from
sync_honors ==
    /\ pc = "sync_honors"
    /\ \E up \in Upstreams :
        SyncStage("honors", RunResults(server), "sync_bonds_honors", up)

sync_bonds_honors ==
    /\ pc = "sync_bonds_honors"
    /\ SyncStage("bonds_honors", results, "sync_honor_groups",
                 upstream)

sync_honor_groups ==
    /\ pc = "sync_honor_groups"
    /\ SyncStage("honor_groups", results, "commit", upstream)

\* run() as it would be if a failed commit were logged and the summary returned
\* without a rollback
CommitFailureReturns ==
    /\ pc = "commit"
    /\ \E fail \in BOOLEAN :
        IF fail
        THEN /\ events' = Append(events, [op |-> "commit", raised |-> TRUE])
             /\ exc' = "DatabaseError"
             /\ results' = [results EXCEPT !.error = "DatabaseError"]
             /\ UNCHANGED store
        ELSE /\ events' = Append(events, [op |-> "commit", raised |-> FALSE])
             /\ store' = txn
             /\ results' = [results EXCEPT !.success = TRUE]
             /\ UNCHANGED exc
    /\ pc' = "returned"
    /\ UNCHANGED <<entry, database_url, server, repo, conn, connectCalls, requested,
                   txn, before, snap, lastFetch, exitCode, now, runs, prev, upstream>>

\* run() as it would be without the call of self.conn.commit()
CommitMissing ==
    /\ pc = "commit"
    /\ events' = Append(events, [op |-> "commit", raised |-> FALSE])
    /\ results' = [results EXCEPT !.success = TRUE]
    /\ pc' = "returned"
    /\ UNCHANGED <<entry, database_url, server, repo, conn, connectCalls, requested,
                   store, txn, before, snap, lastFetch, exc, exitCode, now, runs, prev,
                   upstream>>

\* run(): self.conn.commit() and the lines after it
Commit ==
    /\ pc = "commit"
    /\ \E fail \in BOOLEAN :
        IF fail
        THEN /\ events' = Append(events, [op |-> "commit", raised |-> TRUE])
             /\ exc' = "DatabaseError"
             /\ pc' = "except"
             /\ UNCHANGED <<store, results>>
        ELSE /\ events' = Append(events, [op |-> "commit", raised |-> FALSE])
             /\ store' = txn
             /\ results' = [results EXCEPT !.success = TRUE]
             /\ pc' = "returned"
             /\ UNCHANGED exc
    /\ UNCHANGED <<entry, database_url, server, repo, conn, connectCalls, requested,
                   txn, before, snap, lastFetch, exitCode, now, runs, prev, upstream>>

\* run() as it would be if the except branch committed instead of rolling back
RollbackCommits ==
    /\ pc = "except"
    /\ events' = Append(events, [op |-> "rollback", raised |-> FALSE])
    /\ store' = txn
    /\ results' = [results EXCEPT !.error = exc]
    /\ pc' = "returned"
    /\ UNCHANGED <<entry, database_url, server, repo, conn, connectCalls, requested,
                   txn, before, snap, lastFetch, exc, exitCode, now, runs, prev, upstream>>

\* run(): the except branch
Rollback ==
    /\ pc = "except"
    /\ \E fail \in BOOLEAN :
        IF fail
        THEN /\ events' = Append(events, [op |-> "rollback", raised |-> TRUE])
             /\ exitCode' = 1
             /\ pc' = "raised"
             /\ UNCHANGED <<txn, results>>
        ELSE /\ events' = Append(events, [op |-> "rollback", raised |-> FALSE])
             /\ txn' = store
             /\ results' = [results EXCEPT !.error = exc]
             /\ pc' = "returned"
             /\ UNCHANGED exitCode
    /\ UNCHANGED <<entry, database_url, server, repo, conn, connectCalls, requested,
                   store, before, snap, lastFetch, exc, now, runs, prev, upstream>>

\* main() as it would be without sys.exit(1) for a failed summary
MainFinishExitsZero ==
    /\ pc = "returned"
    /\ exitCode' = 0
    /\ conn' = IF conn = "open" THEN "closed" ELSE conn
    /\ txn' = store
    /\ pc' = "exited"
    /\ UNCHANGED <<entry, database_url, server, repo, connectCalls, requested, store,
                   before, results, snap, lastFetch, exc, now, runs, prev, upstream,
                   events>>

\* main(): what it does with run()'s summary, and its finally clause
MainFinish ==
    /\ pc = "returned"
    /\ exitCode' = IF results.success THEN 0 ELSE 1
    /\ conn' = IF conn = "open" THEN "closed" ELSE conn
    /\ txn' = store
    /\ pc' = "exited"
    /\ UNCHANGED <<entry, database_url, server, repo, connectCalls, requested, store,
                   before, results, snap, lastFetch, exc, now, runs, prev, upstream,
                   events>>

\* close(): from main()'s finally clause while run()'s exception propagates, or
\* by the direct caller
Close ==
    /\ pc \in {"raised", "constructed"}
    /\ conn' = IF conn = "open" THEN "closed" ELSE conn
    /\ txn' = store
    /\ pc' = "exited"
    /\ UNCHANGED <<entry, database_url, server, repo, connectCalls, requested, store,
                   before, results, snap, lastFetch, exc, exitCode, now, runs, prev,
                   upstream, events>>

Next ==
    \/ MainEnter
    \/ DirectEnter
    \/ Construct
    \/ sync_honors
    \/ sync_bonds_honors
    \/ sync_honor_groups
    \/ Commit
    \/ Rollback
    \/ MainFinish
    \/ Close

Spec == Init /\ [][Next]_vars
\* ------------------------------------------------------ claim helpers
StageRan(op) == \E i \in 1..Len(events) : events[i].op = op

StageRaised(op) == \E i \in 1..Len(events) : events[i].op = op /\ events[i].raised

AnyRaised == \E i \in 1..Len(events) : events[i].raised

\* run() has returned its summary to main()
RunReturned ==
    /\ entry = "main"
    /\ pc \in {"returned", "exited"}
    /\ events # <<>>
    /\ ~StageRaised("rollback")

Key(kind, row) == <<row.server, row[IdColumn(kind)]>>

\* The identities the snapshot fetched for a kind in this run holds
SnapKeys(kind) == {<<server, snap[kind].data[j].id>> : j \in 1..Len(snap[kind].data)}

\* ----------------------------------------------------------------- C1
\* C1: when an exception was raised at any stage of run() (a sync stage or the
\* commit), the committed store after run() returns equals the store before
\* the run in all three tables, and the summary has success = false and an
\* error text.
C1_Atomicity ==
    (RunReturned /\ AnyRaised) =>
        /\ store = before
        /\ txn = store
        /\ results.success = FALSE
        /\ results.error # PyNone

\* The third stage raised after the first two had upserted rows into a store
\* that already held rows
C1_Witness ==
    /\ RunReturned
    /\ StageRaised("honor_groups")
    /\ results.honors > 0
    /\ results.bonds_honors > 0
    /\ before["honors"] # {}
    /\ store = before

\* ----------------------------------------------------------------- C2
HonorsUpsertedGroupsDown ==
    /\ RunReturned
    /\ results.honors > 0
    /\ StageRan("honor_groups")
    /\ ~snap["honor_groups"].ok

\* C2 as stated: a run that upserted honors while the honor-groups source was
\* down (both URLs failed) is failed as a whole and commits nothing.
C2_FailedAsAWhole ==
    HonorsUpsertedGroupsDown => (results.success = FALSE /\ store = before)

\* C2, amended: such a run is not failed for that reason.  Its honor-groups
\* stage does not raise; the run succeeds exactly when the commit does not
\* raise, and then honors holds the new snapshot while honor_groups is left
\* as it was, its count 0.  Nothing is committed only when the commit raises.
C2_GroupsDownStillCommits ==
    HonorsUpsertedGroupsDown =>
        /\ ~StageRaised("honor_groups")
        /\ results.success <=> ~StageRaised("commit")
        /\ results.success =>
            /\ results.honor_groups = 0
            /\ store["honor_groups"] = before["honor_groups"]
            /\ store["honors"] # before["honors"]
            /\ \A key \in SnapKeys("honors") :
                \E row \in store["honors"] :
                    Key("honors", row) = key /\ row.updated_at = now
        /\ ~results.success => store = before

\* A committed run with new honors and the honor-groups source down
C2_Witness ==
    /\ HonorsUpsertedGroupsDown
    /\ results.success
    /\ store["honors"] # before["honors"]
    /\ store["honor_groups"] = before["honor_groups"]
    /\ Len(upstream["honor_groups"]) > 0

\* ----------------------------------------------------------------- C3
\* C3: for each of the three files, when its fetch returned absent the upsert
\* is skipped (the table is untouched), the stage does not raise, its count is
\* 0, and if no stage after it raises the remaining stages and the commit are
\* executed and the run ends in Success: success = true, error = null.
C3_MissingFileTolerated ==
    \A k \in Kinds :
        (StageRan(k) /\ ~snap[k].ok) =>
            /\ ~StageRaised(k)
            /\ results[k] = 0
            /\ txn[k] = before[k]
            /\ store[k] = before[k]
            /\ (entry = "main" /\ pc \in {"returned", "exited"} /\ ~AnyRaised) =>
                /\ \A op \in Kinds \cup {"commit"} : StageRan(op)
                /\ results.success = TRUE
                /\ results.error = PyNone
                /\ store = txn

\* A run that succeeded although the first file was absent, and stored the others
C3_Witness ==
    /\ RunReturned
    /\ ~snap["honors"].ok
    /\ results.success
    /\ results.honors = 0
    /\ results.bonds_honors > 0
    /\ results.honor_groups > 0
    /\ store # before

\* ----------------------------------------------------------------- C5
\* The mutable columns of each table, each with the key of the source object
\* it is mapped from
Columns(kind) ==
    CASE kind = "honors" ->
            {<<"seq", "seq">>, <<"group_id", "groupId">>,
             <<"honor_rarity", "honorRarity">>, <<"name", "name">>,
             <<"asset_bundle_name", "assetbundleName">>, <<"levels", "levels">>}
      [] kind = "bonds_honors" ->
            {<<"seq", "seq">>, <<"bonds_group_id", "bondsGroupId">>,
             <<"game_character_unit_id1", "gameCharacterUnitId1">>,
             <<"game_character_unit_id2", "gameCharacterUnitId2">>,
             <<"honor_rarity", "honorRarity">>, <<"name", "name">>,
             <<"description", "description">>, <<"levels", "levels">>}
      [] kind = "honor_groups" ->
            {<<"name", "name">>, <<"honor_type", "honorType">>,
             <<"background_asset_bundle_name", "backgroundAssetbundleName">>}

\* The stored form of a value the new object holds
Stored(col, value) == IF col = "levels" THEN Json(value) ELSE value

\* After a successful run every stored identity that occurs in the snapshot
\* has one row whose mutable columns are the new object's values; a column
\* whose key is missing holds null, the level-detail list missingLevels
ReplacedWith(missingLevels) ==
    (RunReturned /\ results.success) =>
        \A k \in Kinds : \A j \in 1..Len(snap[k].data) :
            LET item == snap[k].data[j]
                rows == {row \in store[k] : Key(k, row) = <<server, item.id>>}
            IN (\E old \in before[k] : Key(k, old) = <<server, item.id>>) =>
                /\ Cardinality(rows) = 1
                /\ \A row \in rows : \A c \in Columns(k) :
                    row[c[1]] = IF c[2] \in DOMAIN item
                                THEN Stored(c[1], item[c[2]])
                                ELSE IF c[1] = "levels" THEN missingLevels ELSE Null

\* C5 as stated: re-syncing a stored identity sets every mutable column to the
\* new object's value, and every mutable column whose key is missing from the
\* new object, the level-detail list included, to null.
C5_MissingBecomesNull == ReplacedWith(Null)

\* C5, amended: re-syncing a stored identity sets every mutable column to the
\* new object's value, and every mutable column whose key is missing from the
\* new object to null, except the level-detail list, which is stored as the
\* empty JSON list [].
C5_ReplaceSemantics == ReplacedWith("[]")

\* A stored bonds honor with a description and levels was re-synced from an
\* object that holds its id alone
C5_Witness ==
    /\ RunReturned
    /\ results.success
    /\ \E j \in 1..Len(snap["bonds_honors"].data) :
        /\ DOMAIN snap["bonds_honors"].data[j] = {"id"}
        /\ \E old \in before["bonds_honors"], row \in store["bonds_honors"] :
            /\ Key("bonds_honors", old) = <<server, snap["bonds_honors"].data[j].id>>
            /\ Key("bonds_honors", row) = Key("bonds_honors", old)
            /\ old.description = "d"
            /\ old.levels # "[]"
            /\ row.description = Null
            /\ row.levels = "[]"

\* ----------------------------------------------------------------- C6
Strip(row) == [c \in DOMAIN row \ {"updated_at"} |-> row[c]]

SameAsPreviousRun ==
    /\ RunReturned
    /\ results.success
    /\ prev.success
    /\ prev.server = server
    /\ prev.snap = snap

\* C6: when a successful sync is followed by another successful sync of the
\* same region whose three fetches return the same data, the second leaves
\* the same rows with the same values in every column but updated_at: no row
\* is added, duplicated or removed; updated_at of every row of the snapshot
\* is the second run's time, which is not earlier than the first run's.
C6_Idempotence ==
    SameAsPreviousRun =>
        \A k \in Kinds :
            /\ {Strip(row) : row \in store[k]} = {Strip(row) : row \in before[k]}
            /\ Cardinality(store[k]) = Cardinality(before[k])
            /\ \A r1, r2 \in store[k] : Key(k, r1) = Key(k, r2) => r1 = r2
            /\ \A key \in SnapKeys(k) :
                /\ \E row \in store[k] : Key(k, row) = key /\ row.updated_at = now
                /\ \E old \in before[k] : Key(k, old) = key /\ old.updated_at = prev.now
            /\ now >= prev.now

\* The same non-empty snapshots synced twice: the rows differ in updated_at alone
C6_Witness ==
    /\ SameAsPreviousRun
    /\ \A k \in Kinds : snap[k].ok /\ Len(snap[k].data) > 0
    /\ store # before

\* ----------------------------------------------------------------- C9
\* C9: a run never deletes a row, and leaves unchanged, updated_at included,
\* every stored row whose identity does not occur in the snapshot the run
\* fetched for that table: stale rows of the run's region and all rows of
\* other regions keep their values.
C9_UpsertOnlyFrame ==
    \A k \in Kinds : \A row \in before[k] :
        /\ \E kept \in store[k] : Key(k, kept) = Key(k, row)
        /\ Key(k, row) \notin SnapKeys(k) => row \in store[k]

\* A committed run whose honor_groups snapshot no longer lists a stored group
\* of the same region
C9_Witness ==
    /\ RunReturned
    /\ results.success
    /\ SnapKeys("honor_groups") # {}
    /\ store["honor_groups"] # before["honor_groups"]
    /\ \E row \in before["honor_groups"] :
        /\ row.server = server
        /\ Key("honor_groups", row) \notin SnapKeys("honor_groups")
        /\ row \in store["honor_groups"]

\* ----------------------------------------------------------------- C7
ConfigInvalid == FalsyStr(database_url) \/ server \notin DOMAIN SERVERS

NothingOpened ==
    /\ connectCalls = 0
    /\ conn = "none"
    /\ requested = FALSE
    /\ events = <<>>

\* C7 as stated: with a missing or empty connection string, or a region that
\* is not enumerated, no connection is opened and no fetch attempted, through
\* main() and on direct construction of HonorsSyncer alike.
C7_FailFastEverywhere ==
    (entry # "none" /\ ConfigInvalid) => (conn = "none" /\ requested = FALSE)

\* C7, amended: a region that is not enumerated fails before any connection is
\* opened and before any fetch, through main() and on direct construction; a
\* missing or empty connection string does so through main() only (the
\* constructor does not look at it and hands it to psycopg2.connect).  Every
\* enumerated region resolves to a non-empty repository and display name.
C7_FailFast ==
    /\ (entry = "main" /\ ConfigInvalid) =>
            (NothingOpened /\ pc = "exited" /\ exitCode # 0 /\ repo = PyNone)
    /\ (entry = "direct" /\ server \notin DOMAIN SERVERS) =>
            (NothingOpened /\ pc \in {"construct", "exited"}
             /\ (pc = "exited" => exc = "ValueError"))
    /\ \A s \in DOMAIN SERVERS :
            ~FalsyStr(ServersGet(s)) /\ ~FalsyStr(ServerNamesGet(s))
    /\ connectCalls > 0 => (server \in DOMAIN SERVERS /\ repo = SERVERS[server])

\* A direct construction with an unknown region has raised without connecting
C7_Witness ==
    /\ entry = "direct"
    /\ server = "xx"
    /\ pc = "exited"
    /\ exc = "ValueError"
    /\ connectCalls = 0

\* ----------------------------------------------------------------- C8
\* C8: main() exits with code 0 only if the run committed all stages
\* (success = true); every configuration error and every failure (an
\* exception in a stage, in the commit or in the rollback, or a failed
\* connection) ends with a non-zero exit; a connection that was opened is
\* closed when the process exits.
C8_ExitContract ==
    (entry = "main" /\ pc = "exited") =>
        /\ exitCode = 0 =>
            /\ results.success = TRUE
            /\ \A op \in Kinds \cup {"commit"} : StageRan(op)
            /\ ~AnyRaised
            /\ store = txn
        /\ (ConfigInvalid \/ AnyRaised \/ exc # PyNone \/ results.success = FALSE)
               => exitCode # 0
        /\ conn # "open"
        /\ connectCalls > 0 /\ exc # "OperationalError" => conn = "closed"

\* The rollback itself raised: the process still closed the connection and
\* exited non-zero
C8_Witness ==
    /\ entry = "main"
    /\ pc = "exited"
    /\ StageRaised("rollback")
    /\ exitCode = 1
    /\ conn = "closed"

\* ---------------------------------------------------------------- C10
Order == <<"honors", "bonds_honors", "honor_groups", "commit">>

\* C10: the stages of a run execute in the order honors, bonds-honors,
\* honor-groups, commit, each only after the one before returned without an
\* exception; the commit is attempted at most once and only after all three;
\* once an operation raises, the next and last operation is the rollback; a
\* concluded run ends with the successful commit (Success) or with the
\* rollback (Failed), never both.
C10_Ordering ==
    /\ \A i \in 1..Len(events) :
        IF \E j \in 1..(i - 1) : events[j].raised
        THEN /\ events[i].op = "rollback"
             /\ i = Len(events)
             /\ events[i - 1].raised
             /\ events[i - 1].op # "rollback"
        ELSE i <= Len(Order) /\ events[i].op = Order[i]
    /\ Cardinality({i \in 1..Len(events) : events[i].op = "commit"}) <= 1
    /\ (entry = "main" /\ pc \in {"returned", "raised", "exited"} /\ events # <<>>) =>
        LET last == events[Len(events)]
        IN /\ \/ last.op = "commit" /\ ~last.raised /\ results.success = TRUE
              \/ last.op = "rollback" /\ results.success = FALSE
           /\ ~(StageRan("rollback") /\ results.success = TRUE)
    /\ (pc \in {"sync_honors", "sync_bonds_honors", "sync_honor_groups", "commit"})
           => ~AnyRaised

\* All three stages returned, the commit raised, and the rollback concluded the run
C10_Witness ==
    /\ pc = "returned"
    /\ Len(events) = 5
    /\ events[4] = [op |-> "commit", raised |-> TRUE]
    /\ events[5] = [op |-> "rollback", raised |-> FALSE]
    /\ results.success = FALSE

\* ------------------------------------------------- fetch_json on its own
\* One call of fetch_json for any region's repository and any of the three
\* files, against any network; the two mirrors may serve different bodies.
FetchCall ==
    /\ lastFetch = NoFetch
    /\ \E s \in DOMAIN SERVERS, kind \in Kinds, o1, o2 \in Outcomes,
          u1, u2 \in Upstreams :
        LET f == fetch_json(SERVERS[s], FileOf(kind),
                            Net(SERVERS[s], FileOf(kind), o1, u1[kind], o2, u2[kind]))
        IN lastFetch' = [repo |-> SERVERS[s], filename |-> FileOf(kind),
                         primary |-> [outcome |-> o1, data |-> u1[kind]],
                         secondary |-> [outcome |-> o2, data |-> u2[kind]],
                         log |-> f.log, ret |-> f.ret]
    /\ UNCHANGED <<pc, entry, database_url, server, repo, conn, connectCalls, requested,
                   store, txn, before, results, snap, exc, exitCode, now, runs, prev,
                   upstream, events>>

SpecFetch == Init /\ [][FetchCall]_vars

\* ----------------------------------------------------------------- C4
FetchFailures == {"transport", "status", "badjson"}

FetchCalled == lastFetch.filename # ""

\* C4: fetch_json tries the primary URL first; it tries the secondary URL, for
\* the same file, if and only if the primary attempt failed (transport error,
\* non-success status or malformed JSON); no URL is tried twice; it returns the
\* first successfully parsed body, and returns absent exactly when both
\* attempts failed.
C4_FetchFallback ==
    FetchCalled =>
        LET f == lastFetch
            raw == RAW_URL_TEMPLATE(f.repo, f.filename)
            cdn == CDN_URL_TEMPLATE(f.repo, f.filename)
        IN /\ Len(f.log) \in {1, 2}
           /\ f.log[1] = [url |-> raw, outcome |-> f.primary.outcome]
           /\ (Len(f.log) = 2) <=> (f.primary.outcome \in FetchFailures)
           /\ Len(f.log) = 2 => f.log[2] = [url |-> cdn, outcome |-> f.secondary.outcome]
           /\ \A i, j \in 1..Len(f.log) : i # j => f.log[i].url # f.log[j].url
           /\ f.primary.outcome = "ok" => f.ret = Body(f.primary.data)
           /\ (f.primary.outcome # "ok" /\ f.secondary.outcome = "ok")
                  => f.ret = Body(f.secondary.data)
           /\ (f.ret = Absent) <=>
                  (f.primary.outcome \in FetchFailures /\ f.secondary.outcome \in FetchFailures)

\* The primary served malformed JSON and the secondary's body was returned
C4_Witness ==
    /\ FetchCalled
    /\ lastFetch.primary.outcome = "badjson"
    /\ lastFetch.secondary.outcome = "ok"
    /\ Len(lastFetch.log) = 2
    /\ lastFetch.ret.ok
    /\ Len(lastFetch.ret.data) > 0
    /\ lastFetch.ret.data # lastFetch.primary.data
====
